---- MODULE Spec2Model ----
(***************************************************************************)
(* Model of app.py: the news pipeline fetch_news -> analyze_sentiment /    *)
(* extract_topics -> generate_report -> generate_hindi_summary -> gTTS,    *)
(* and the Streamlit "Analyze" button handler that drives it.              *)
(*                                                                         *)
(* Texts are sequences of one-character strings, so that lower-casing and  *)
(* substring containment are computed, not assumed.  A polarity score is   *)
(* an integer numerator over Scale (score p stands for p / Scale).         *)
(***************************************************************************)
EXTENDS Integers, Sequences, FiniteSets, TLC

(***************************************************************************)
(* Bounds of the model.                                                    *)
(***************************************************************************)
\* resolution of the polarity grid: polarities are -Scale..Scale over Scale
Scale == 100
\* longest feed (in items) the remote endpoint answers with, single run
MaxFeed == 6
\* longest feed the endpoint answers with when two runs overlap
MaxOverlapFeed == 1
\* most fragments concatenated into one text given to extract_topics
MaxFrags == 3

(***************************************************************************)
(* Characters and texts.                                                   *)
(***************************************************************************)
UpperChars == <<"A", "B", "C", "D", "E", "F", "G", "H", "I", "J", "K", "L", "M", "N", "O", "P", "Q", "R", "S", "T", "U", "V", "W", "X", "Y", "Z">>
LowerChars == <<"a", "b", "c", "d", "e", "f", "g", "h", "i", "j", "k", "l", "m", "n", "o", "p", "q", "r", "s", "t", "u", "v", "w", "x", "y", "z">>

\* str.lower() on one character
LowerChar(c) ==
    IF \E i \in 1..Len(UpperChars) : UpperChars[i] = c
    THEN LowerChars[CHOOSE i \in 1..Len(UpperChars) : UpperChars[i] = c]
    ELSE c

\* text.lower()
lower(text) == [i \in 1..Len(text) |-> LowerChar(text[i])]

\* Python's `keyword in text_lower` on strings: substring containment
Contains(keyword, text) ==
    \E i \in 0..(Len(text) - Len(keyword)) :
        \A j \in 1..Len(keyword) : text[i + j] = keyword[j]

(***************************************************************************)
(* TOPIC_KEYWORDS: a dict, iterated in insertion order.                    *)
(***************************************************************************)
TOPIC_ORDER ==
    <<"Electric Vehicles", "Stock Market", "Innovation", "Regulations", "Autonomous Vehicles">>

TOPIC_KEYWORDS ==
    [t \in {TOPIC_ORDER[i] : i \in 1..Len(TOPIC_ORDER)} |->
        CASE t = "Electric Vehicles" ->
               << <<"e", "v">>,
                  <<"e", "l", "e", "c", "t", "r", "i", "c", " ", "v", "e", "h", "i", "c", "l", "e">>,
                  <<"b", "a", "t", "t", "e", "r", "y">>,
                  <<"c", "h", "a", "r", "g", "i", "n", "g">> >>
          [] t = "Stock Market" ->
               << <<"s", "t", "o", "c", "k">>,
                  <<"s", "h", "a", "r", "e">>,
                  <<"i", "n", "v", "e", "s", "t", "m", "e", "n", "t">>,
                  <<"m", "a", "r", "k", "e", "t", " ", "c", "a", "p">> >>
          [] t = "Innovation" ->
               << <<"i", "n", "n", "o", "v", "a", "t", "i", "o", "n">>,
                  <<"b", "r", "e", "a", "k", "t", "h", "r", "o", "u", "g", "h">>,
                  <<"n", "e", "w", " ", "t", "e", "c", "h">>,
                  <<"i", "n", "v", "e", "n", "t", "i", "o", "n">> >>
          [] t = "Regulations" ->
               << <<"r", "e", "g", "u", "l", "a", "t", "i", "o", "n">>,
                  <<"l", "a", "w">>,
                  <<"l", "e", "g", "a", "l">>,
                  <<"c", "o", "m", "p", "l", "i", "a", "n", "c", "e">> >>
          [] t = "Autonomous Vehicles" ->
               << <<"s", "e", "l", "f", "-", "d", "r", "i", "v", "i", "n", "g">>,
                  <<"a", "u", "t", "o", "n", "o", "m", "o", "u", "s">>,
                  <<"f", "s", "d">>,
                  <<"a", "u", "t", "o", "p", "i", "l", "o", "t">> >>]

Sentiments == {"Positive", "Negative", "Neutral"}

(***************************************************************************)
(* analyze_sentiment.  `score` is what TextBlob(text).sentiment.polarity   *)
(* did for the text: it raised, or it gave the polarity score.polarity /   *)
(* Scale.  The code compares with 0.1: p / Scale > 1 / 10 is 10 p > Scale. *)
(***************************************************************************)
Polarity(p) == [raised |-> FALSE, polarity |-> p]
ScorerRaised == [raised |-> TRUE, polarity |-> 0]

analyze_sentiment_inclusive(score) ==
    IF score.raised THEN "Neutral"
    ELSE IF 10 * score.polarity >= Scale THEN "Positive"
    ELSE IF 10 * score.polarity <= -Scale THEN "Negative"
    ELSE "Neutral"

analyze_sentiment(score) ==
    IF score.raised THEN "Neutral"
    ELSE IF 10 * score.polarity > Scale THEN "Positive"
    ELSE IF 10 * score.polarity < -Scale THEN "Negative"
    ELSE "Neutral"

(***************************************************************************)
(* extract_topics.                                                         *)
(***************************************************************************)
\* any(keyword in text_lower for keyword in keywords)
AnyKeyword(keywords, text_lower) ==
    \E k \in 1..Len(keywords) : Contains(keywords[k], text_lower)

\* the for loop over TOPIC_KEYWORDS.items(), from table position i on
RECURSIVE TopicLoop(_, _, _)
TopicLoop(i, text_lower, topics) ==
    IF i > Len(TOPIC_ORDER) THEN topics
    ELSE TopicLoop(i + 1, text_lower,
                   IF AnyKeyword(TOPIC_KEYWORDS[TOPIC_ORDER[i]], text_lower)
                   THEN Append(topics, TOPIC_ORDER[i])
                   ELSE topics)

extract_topics_case_sensitive(text) ==
    IF text = <<>> THEN <<"General">>
    ELSE LET topics == TopicLoop(1, text, <<>>)
         IN  IF topics # <<>> THEN topics ELSE <<"General">>

extract_topics(text) ==
    IF text = <<>> THEN <<"General">>
    ELSE LET text_lower == lower(text)
             topics == TopicLoop(1, text_lower, <<>>)
         IN  IF topics # <<>> THEN topics ELSE <<"General">>

(***************************************************************************)
(* The remote feed.  An <item> has four optional sub-elements.             *)
(***************************************************************************)
Elem(text) == [present |-> TRUE, text |-> text]
Missing == [present |-> FALSE, text |-> <<>>]

TitleStock == <<"E", "V", " ", "s", "t", "o", "c", "k", " ", "u", "p">>
TitleLaw == <<"N", "e", "w", " ", "l", "a", "w", " ", "h", "i", "t", "s", " ", "F", "S", "D">>
NoTitle == <<"N", "o", " ", "t", "i", "t", "l", "e">>
NoLink == <<"#">>
NoSummary == <<"N", "o", " ", "s", "u", "m", "m", "a", "r", "y", " ", "a", "v", "a", "i", "l", "a", "b", "l", "e">>
UnknownSource == <<"U", "n", "k", "n", "o", "w", "n">>

FeedItems ==
    { [title |-> Elem(TitleStock), link |-> Elem(<<"a">>),
       description |-> Elem(<<"S", "h", "a", "r", "e", "s", " ", "j", "u", "m", "p">>),
       source |-> Elem(<<"W", "i", "r", "e">>)],
      [title |-> Elem(TitleLaw), link |-> Elem(<<"b">>),
       description |-> Missing, source |-> Elem(<<"W", "i", "r", "e">>)],
      [title |-> Missing, link |-> Missing,
       description |-> Elem(<<"B", "a", "t", "t", "e", "r", "y", " ", "p", "l", "a", "n", "t">>),
       source |-> Missing] }

\* the feeds of at most n items
Feeds(n) == UNION {[1..k -> FeedItems] : k \in 0..n}

\* what requests.get / raise_for_status / BeautifulSoup can do; a response
\* that arrived (whatever its status or well-formedness) has a body
FailureKinds == {"network error", "timeout", "bad status", "parse failure"}
Responses(n) ==
    {[kind |-> "ok", items |-> f] : f \in Feeds(n)}
    \cup {[kind |-> k, items |-> <<>>] : k \in {"network error", "timeout"}}
    \cup {[kind |-> k, items |-> f] : k \in {"bad status", "parse failure"}, f \in Feeds(n)}
NoResponse == [kind |-> "none", items |-> <<>>]

\* TextBlob(text).sentiment.polarity on the titles of the model
TextBlobScore(text) ==
    CASE text = TitleStock -> Polarity(40)
      [] text = TitleLaw -> Polarity(-20)
      [] OTHER -> Polarity(0)

(***************************************************************************)
(* fetch_news: the articles returned and the st.error calls made.          *)
(***************************************************************************)
max_articles == 5

OrElse(elem, placeholder) == IF elem.present THEN elem.text ELSE placeholder

ParseItem(item) ==
    [title |-> OrElse(item.title, NoTitle),
     link |-> OrElse(item.link, NoLink),
     summary |-> OrElse(item.description, NoSummary),
     source |-> OrElse(item.source, UnknownSource)]

ErrorBox(msg, detail) == [kind |-> "error", msg |-> msg, detail |-> detail]

fetch_news_partial(resp) ==
    LET items == SubSeq(resp.items, 1, IF Len(resp.items) < max_articles
                                       THEN Len(resp.items) ELSE max_articles)
    IN  IF resp.kind = "ok"
        THEN [articles |-> [i \in 1..Len(items) |-> ParseItem(items[i])],
              errors |-> <<>>]
        ELSE [articles |-> [i \in 1..Len(items) |-> ParseItem(items[i])],
              errors |-> <<ErrorBox("Error fetching news", resp.kind)>>]

fetch_news_silent(resp) ==
    IF resp.kind = "ok"
    THEN LET items == SubSeq(resp.items, 1, IF Len(resp.items) < max_articles
                                            THEN Len(resp.items) ELSE max_articles)
         IN  [articles |-> [i \in 1..Len(items) |-> ParseItem(items[i])],
              errors |-> <<>>]
    ELSE [articles |-> <<>>, errors |-> <<>>]

fetch_news(resp) ==
    IF resp.kind = "ok"
    THEN LET items == SubSeq(resp.items, 1, IF Len(resp.items) < max_articles
                                            THEN Len(resp.items) ELSE max_articles)
         IN  [articles |-> [i \in 1..Len(items) |-> ParseItem(items[i])],
              errors |-> <<>>]
    ELSE [articles |-> <<>>,
          errors |-> <<ErrorBox("Error fetching news", resp.kind)>>]

(***************************************************************************)
(* Dicts: functions whose domain is the set of keys present.               *)
(***************************************************************************)
EmptyDict == [k \in {} |-> 0]
Get(d, k, default) == IF k \in DOMAIN d THEN d[k] ELSE default
IncrOverwrite(d, k) == [x \in (DOMAIN d) \cup {k} |-> IF x = k THEN 1 ELSE d[x]]
\* d[k] += 1 on a defaultdict(int)
Incr(d, k) == [x \in (DOMAIN d) \cup {k} |-> IF x = k THEN Get(d, k, 0) + 1 ELSE d[x]]
\* reading d[k] on a defaultdict(int) inserts the default
Touch(d, k) == [x \in (DOMAIN d) \cup {k} |-> Get(d, x, 0)]

RECURSIVE SumOver(_, _)
\* sum(d.values())
SumOver(d, keys) ==
    IF keys = {} THEN 0
    ELSE LET k == CHOOSE x \in keys : TRUE
         IN  d[k] + SumOver(d, keys \ {k})
SumValues(d) == SumOver(d, DOMAIN d)

(***************************************************************************)
(* generate_report.                                                        *)
(***************************************************************************)
None == [isNone |-> TRUE]

\* one article of the report (lines 79-87)
ProcessArticle(article) ==
    [Title |-> article.title,
     Summary |-> article.summary,
     Sentiment |-> analyze_sentiment(TextBlobScore(article.title)),
     Topics |-> extract_topics(article.title \o <<" ">> \o article.summary)]

\* f"{x / total:.1%}" in tenths of a percent (no ratio of counts up to
\* max_articles falls on a rounding tie)
PercentTenths(x, total) == (2000 * x + total) \div (2 * total)

\* the dict literal is evaluated in order: the copy dict(sentiment_counts)
\* is taken before sentiment_counts['Positive'] is read
BuildReportAfterRead(comp, processed, counts) ==
    LET total == SumValues(counts)
        touched == Touch(counts, "Positive")
    IN  [isNone |-> FALSE,
         Company |-> comp,
         Articles |-> processed,
         Distribution |-> touched,
         PositiveRatio |-> IF total # 0
                           THEN [literal |-> FALSE, tenths |-> PercentTenths(touched["Positive"], total)]
                           ELSE [literal |-> TRUE, tenths |-> 0]]

BuildReport(comp, processed, counts) ==
    LET total == SumValues(counts)
        touched == Touch(counts, "Positive")
    IN  [isNone |-> FALSE,
         Company |-> comp,
         Articles |-> processed,
         Distribution |-> counts,
         PositiveRatio |-> IF total # 0
                           THEN [literal |-> FALSE, tenths |-> PercentTenths(touched["Positive"], total)]
                           ELSE [literal |-> TRUE, tenths |-> 0]]

(***************************************************************************)
(* generate_hindi_summary.                                                 *)
(***************************************************************************)
NoReportMessage == [kind |-> "fallback"]

sentiment_map(s) ==
    CASE s = "Positive" -> "sakaratmak"
      [] s = "Negative" -> "nakaratmak"
      [] s = "Neutral" -> "tatasth"
      [] OTHER -> s

generate_hindi_summary_two_classes(report) ==
    IF report.isNone THEN NoReportMessage
    ELSE LET dist == report.Distribution
             positive == Get(dist, "Positive", 0)
             negative == Get(dist, "Negative", 0)
             neutral == Get(dist, "Neutral", 0)
             shown == IF Len(report.Articles) < 3 THEN Len(report.Articles) ELSE 3
         IN  [kind |-> "analysis",
              company |-> report.Company,
              total |-> positive + negative,
              positive |-> positive,
              negative |-> negative,
              neutral |-> neutral,
              top |-> [i \in 1..shown |->
                         [n |-> i,
                          title |-> report.Articles[i].Title,
                          sentiment |-> sentiment_map(report.Articles[i].Sentiment)]]]

generate_hindi_summary(report) ==
    IF report.isNone THEN NoReportMessage
    ELSE LET dist == report.Distribution
             positive == Get(dist, "Positive", 0)
             negative == Get(dist, "Negative", 0)
             neutral == Get(dist, "Neutral", 0)
             shown == IF Len(report.Articles) < 3 THEN Len(report.Articles) ELSE 3
         IN  [kind |-> "analysis",
              company |-> report.Company,
              total |-> positive + negative + neutral,
              positive |-> positive,
              negative |-> negative,
              neutral |-> neutral,
              top |-> [i \in 1..shown |->
                         [n |-> i,
                          title |-> report.Articles[i].Title,
                          sentiment |-> sentiment_map(report.Articles[i].Sentiment)]]]

(***************************************************************************)
(* State.  Each run of the script (one press of "Analyze") has its own     *)
(* locals and its own screen; the file hindi_summary.mp3 in the working    *)
(* directory is the one thing every run of the process reaches.            *)
(***************************************************************************)
VARIABLES
    pc,                  \* run -> where the run stands
    company,             \* run -> st.text_input value
    response,            \* run -> what the feed endpoint did for the run
    articles,            \* run -> fetch_news result
    sentiment_counts,    \* run -> defaultdict(int) of generate_report
    processed_articles,  \* run -> list built by generate_report
    report,              \* run -> generate_report result
    hindi_summary,       \* run -> generate_hindi_summary result
    tts,                 \* run -> the gTTS request of the run
    audio_bytes,         \* run -> bytes read back from the file
    screen,              \* run -> elements shown so far, in order
    mp3_file,            \* the file "hindi_summary.mp3"
    fn_pc,               \* "input" / "output": a function applied on its own
    score,               \* input of analyze_sentiment
    sentiment,           \* its result
    text,                \* input of extract_topics
    topics               \* its result

run_vars == <<pc, company, response, articles, sentiment_counts, processed_articles,
              report, hindi_summary, tts, audio_bytes, screen, mp3_file>>
fn_vars == <<fn_pc, score, sentiment, text, topics>>
vars == <<run_vars, fn_vars>>

Runs == {1, 2}
Solo == {1}
Companies == {"Tesla", "Unknown Corp"}

NoTts == [requested |-> FALSE]
NoFile == [exists |-> FALSE, bytes |-> <<>>]
\* the audio gTTS produces for a text in a language
Mp3(t, lang) == [mp3_of |-> t, lang |-> lang]

RunInit ==
    /\ pc = [r \in Runs |-> "idle"]
    /\ company = [r \in Runs |-> ""]
    /\ response = [r \in Runs |-> NoResponse]
    /\ articles = [r \in Runs |-> <<>>]
    /\ sentiment_counts = [r \in Runs |-> EmptyDict]
    /\ processed_articles = [r \in Runs |-> <<>>]
    /\ report = [r \in Runs |-> None]
    /\ hindi_summary = [r \in Runs |-> NoReportMessage]
    /\ tts = [r \in Runs |-> NoTts]
    /\ audio_bytes = [r \in Runs |-> <<>>]
    /\ screen = [r \in Runs |-> <<>>]
    /\ mp3_file = NoFile

FnIdle ==
    /\ fn_pc = "input"
    /\ score = Polarity(0)
    /\ sentiment = "Neutral"
    /\ text = <<>>
    /\ topics = <<>>

Init == RunInit /\ FnIdle

(***************************************************************************)
(* The "Analyze" handler, statement by statement.                          *)
(***************************************************************************)
\* lines 139-143: the button is pressed with a company name typed in
Click(r) ==
    /\ pc[r] = "idle"
    /\ \E c \in Companies : company' = [company EXCEPT ![r] = c]
    /\ pc' = [pc EXCEPT ![r] = "fetch"]
    /\ UNCHANGED <<response, articles, sentiment_counts, processed_articles, report,
                   hindi_summary, tts, audio_bytes, screen, mp3_file, fn_vars>>

\* line 71: articles = fetch_news(company); the endpoint answers with one
\* of Responses(n)
FetchNews(r, n) ==
    /\ pc[r] = "fetch"
    /\ \E resp \in Responses(n) :
          LET res == fetch_news(resp)
          IN  /\ response' = [response EXCEPT ![r] = resp]
              /\ articles' = [articles EXCEPT ![r] = res.articles]
              /\ screen' = [screen EXCEPT ![r] = @ \o res.errors]
    /\ pc' = [pc EXCEPT ![r] = "generate"]
    /\ UNCHANGED <<company, sentiment_counts, processed_articles, report,
                   hindi_summary, tts, audio_bytes, mp3_file, fn_vars>>

ReturnZeroReport(r) ==
    /\ pc[r] = "generate"
    /\ articles[r] = <<>>
    /\ report' = [report EXCEPT ![r] = BuildReport(company[r], <<>>, EmptyDict)]
    /\ pc' = [pc EXCEPT ![r] = "returned"]
    /\ UNCHANGED <<company, response, articles, sentiment_counts, processed_articles,
                   hindi_summary, tts, audio_bytes, screen, mp3_file, fn_vars>>

\* lines 72-73: if not articles: return None
ReturnNone(r) ==
    /\ pc[r] = "generate"
    /\ articles[r] = <<>>
    /\ report' = [report EXCEPT ![r] = None]
    /\ pc' = [pc EXCEPT ![r] = "returned"]
    /\ UNCHANGED <<company, response, articles, sentiment_counts, processed_articles,
                   hindi_summary, tts, audio_bytes, screen, mp3_file, fn_vars>>

\* lines 78-87: one iteration of the loop over the articles
LoopBody(r) ==
    /\ pc[r] = "generate"
    /\ Len(processed_articles[r]) < Len(articles[r])
    /\ LET article == articles[r][Len(processed_articles[r]) + 1]
           processed == ProcessArticle(article)
       IN  /\ sentiment_counts' = [sentiment_counts EXCEPT ![r] = Incr(@, processed.Sentiment)]
           /\ processed_articles' = [processed_articles EXCEPT ![r] = Append(@, processed)]
    /\ UNCHANGED <<pc, company, response, articles, report, hindi_summary, tts,
                   audio_bytes, screen, mp3_file, fn_vars>>

\* lines 89-100: total, the report literal, return report
ReturnReport(r) ==
    /\ pc[r] = "generate"
    /\ articles[r] # <<>>
    /\ Len(processed_articles[r]) = Len(articles[r])
    /\ report' = [report EXCEPT ![r] =
                     BuildReport(company[r], processed_articles[r], sentiment_counts[r])]
    /\ sentiment_counts' = [sentiment_counts EXCEPT ![r] = Touch(@, "Positive")]
    /\ pc' = [pc EXCEPT ![r] = "returned"]
    /\ UNCHANGED <<company, response, articles, processed_articles, hindi_summary, tts,
                   audio_bytes, screen, mp3_file, fn_vars>>

Metric(label, value) == [kind |-> "metric", label |-> label, value |-> value]
Expander(a) ==
    [kind |-> "expander", title |-> a.Title, sentiment |-> a.Sentiment,
     summary |-> a.Summary, topics |-> a.Topics]

\* lines 145-159: if report: success, the three metrics, one expander per article
ShowReport(r) ==
    /\ pc[r] = "returned"
    /\ ~report[r].isNone
    /\ LET dist == report[r].Distribution
       IN  screen' = [screen EXCEPT ![r] =
               @ \o <<[kind |-> "success"],
                      Metric("Positive", Get(dist, "Positive", 0)),
                      Metric("Negative", Get(dist, "Negative", 0)),
                      Metric("Neutral", Get(dist, "Neutral", 0))>>
                 \o [i \in 1..Len(report[r].Articles) |-> Expander(report[r].Articles[i])]]
    /\ pc' = [pc EXCEPT ![r] = "summarize"]
    /\ UNCHANGED <<company, response, articles, sentiment_counts, processed_articles,
                   report, hindi_summary, tts, audio_bytes, mp3_file, fn_vars>>

\* lines 182-183: else: st.error("Could not fetch news for ...")
ShowNoData(r) ==
    /\ pc[r] = "returned"
    /\ report[r].isNone
    /\ screen' = [screen EXCEPT ![r] = Append(@, ErrorBox("Could not fetch news for", company[r]))]
    /\ pc' = [pc EXCEPT ![r] = "done"]
    /\ UNCHANGED <<company, response, articles, sentiment_counts, processed_articles,
                   report, hindi_summary, tts, audio_bytes, mp3_file, fn_vars>>

SummarizeSilently(r) ==
    /\ pc[r] = "summarize"
    /\ hindi_summary' = [hindi_summary EXCEPT ![r] = generate_hindi_summary(report[r])]
    /\ pc' = [pc EXCEPT ![r] = "synthesize"]
    /\ UNCHANGED <<company, response, articles, sentiment_counts, processed_articles,
                   report, tts, audio_bytes, screen, mp3_file, fn_vars>>

\* lines 162-164: the summary is computed and shown as text
Summarize(r) ==
    /\ pc[r] = "summarize"
    /\ LET summary == generate_hindi_summary(report[r])
       IN  /\ hindi_summary' = [hindi_summary EXCEPT ![r] = summary]
           /\ screen' = [screen EXCEPT ![r] = Append(@, [kind |-> "text", body |-> summary])]
    /\ pc' = [pc EXCEPT ![r] = "synthesize"]
    /\ UNCHANGED <<company, response, articles, sentiment_counts, processed_articles,
                   report, tts, audio_bytes, mp3_file, fn_vars>>

\* lines 167-168: gTTS(text=hindi_summary, lang='hi') and tts.save(...) succeed
Synthesize(r) ==
    /\ pc[r] = "synthesize"
    /\ tts' = [tts EXCEPT ![r] = [requested |-> TRUE, text |-> hindi_summary[r], lang |-> "hi"]]
    /\ mp3_file' = [exists |-> TRUE, bytes |-> <<Mp3(hindi_summary[r], "hi")>>]
    /\ pc' = [pc EXCEPT ![r] = "read"]
    /\ UNCHANGED <<company, response, articles, sentiment_counts, processed_articles,
                   report, hindi_summary, audio_bytes, screen, fn_vars>>

\* lines 167-168 raise: nothing catches it, the script run ends and
\* Streamlit shows the exception below what is already on the screen.  The
\* file is untouched (the constructor raised) or was opened for writing and
\* left without the audio (save raised)
SynthesizeFails(r) ==
    /\ pc[r] = "synthesize"
    /\ tts' = [tts EXCEPT ![r] = [requested |-> TRUE, text |-> hindi_summary[r], lang |-> "hi"]]
    /\ mp3_file' \in {mp3_file, [exists |-> TRUE, bytes |-> <<>>]}
    /\ screen' = [screen EXCEPT ![r] = Append(@, [kind |-> "exception"])]
    /\ pc' = [pc EXCEPT ![r] = "crashed"]
    /\ UNCHANGED <<company, response, articles, sentiment_counts, processed_articles,
                   report, hindi_summary, audio_bytes, fn_vars>>

\* lines 171-172: the file is opened and read back
ReadAudio(r) ==
    /\ pc[r] = "read"
    /\ mp3_file.exists
    /\ audio_bytes' = [audio_bytes EXCEPT ![r] = mp3_file.bytes]
    /\ pc' = [pc EXCEPT ![r] = "offer"]
    /\ UNCHANGED <<company, response, articles, sentiment_counts, processed_articles,
                   report, hindi_summary, tts, screen, mp3_file, fn_vars>>

\* lines 173-181: the player and the download button get the bytes read
OfferAudio(r) ==
    /\ pc[r] = "offer"
    /\ screen' = [screen EXCEPT ![r] =
           @ \o <<[kind |-> "audio", data |-> audio_bytes[r]],
                  [kind |-> "download", data |-> audio_bytes[r],
                   file_name |-> <<company[r], "_hindi_summary.mp3">>]>>]
    /\ pc' = [pc EXCEPT ![r] = "done"]
    /\ UNCHANGED <<company, response, articles, sentiment_counts, processed_articles,
                   report, hindi_summary, tts, audio_bytes, mp3_file, fn_vars>>

\* one script run at a time
Next ==
    \/ \E r \in Solo : Click(r)
    \/ \E r \in Solo : FetchNews(r, MaxFeed)
    \/ \E r \in Solo : ReturnNone(r)
    \/ \E r \in Solo : LoopBody(r)
    \/ \E r \in Solo : ReturnReport(r)
    \/ \E r \in Solo : ShowReport(r)
    \/ \E r \in Solo : ShowNoData(r)
    \/ \E r \in Solo : Summarize(r)
    \/ \E r \in Solo : Synthesize(r)
    \/ \E r \in Solo : SynthesizeFails(r)
    \/ \E r \in Solo : ReadAudio(r)
    \/ \E r \in Solo : OfferAudio(r)

Spec == Init /\ [][Next]_vars

\* two sessions of the same server process press "Analyze" at about the
\* same time: their script runs are threads that interleave
NextOverlap ==
    \/ \E r \in Runs : Click(r)
    \/ \E r \in Runs : FetchNews(r, MaxOverlapFeed)
    \/ \E r \in Runs : ReturnNone(r)
    \/ \E r \in Runs : LoopBody(r)
    \/ \E r \in Runs : ReturnReport(r)
    \/ \E r \in Runs : ShowReport(r)
    \/ \E r \in Runs : ShowNoData(r)
    \/ \E r \in Runs : Summarize(r)
    \/ \E r \in Runs : Synthesize(r)
    \/ \E r \in Runs : SynthesizeFails(r)
    \/ \E r \in Runs : ReadAudio(r)
    \/ \E r \in Runs : OfferAudio(r)

SpecOverlap == Init /\ [][NextOverlap]_vars

(***************************************************************************)
(* The two pure functions applied on their own to bounded inputs.          *)
(***************************************************************************)
Scores == {Polarity(p) : p \in (-Scale)..Scale} \cup {ScorerRaised}

Fragments ==
    { <<" ">>, <<"N", "e", "w">>, <<"t", "e", "c", "h">>, <<"E", "V">>, <<"L", "a", "w">>,
      <<"S", "t", "o", "c", "k">>, <<"m", "a", "r", "k", "e", "t">>, <<"c", "a", "p">>,
      <<"N", "e", "v", "e", "r">>, <<"r", "a", "i", "n">>, <<"F", "S", "D">> }

RECURSIVE Texts(_)
\* the texts made of at most n fragments
Texts(n) ==
    IF n = 0 THEN {<<>>}
    ELSE LET shorter == Texts(n - 1)
         IN  shorter \cup {t \o f : t \in shorter, f \in Fragments}

InitSentiment ==
    /\ RunInit
    /\ fn_pc = "input"
    /\ score \in Scores
    /\ sentiment = "Neutral"
    /\ text = <<>>
    /\ topics = <<>>

ApplySentiment ==
    /\ fn_pc = "input"
    /\ sentiment' = analyze_sentiment(score)
    /\ fn_pc' = "output"
    /\ UNCHANGED <<run_vars, score, text, topics>>

SpecSentiment == InitSentiment /\ [][ApplySentiment]_vars

InitTopics ==
    /\ RunInit
    /\ fn_pc = "input"
    /\ score = Polarity(0)
    /\ sentiment = "Neutral"
    /\ text \in Texts(MaxFrags)
    /\ topics = <<>>

ApplyTopics ==
    /\ fn_pc = "input"
    /\ topics' = extract_topics(text)
    /\ fn_pc' = "output"
    /\ UNCHANGED <<run_vars, score, sentiment, text>>

SpecTopics == InitTopics /\ [][ApplyTopics]_vars

(***************************************************************************)
(* Properties.                                                             *)
(***************************************************************************)
\* the run has a value back from generate_report
Returned(r) == pc[r] \in {"returned", "summarize", "synthesize", "read", "offer", "done", "crashed"}
\* the run has a value back from generate_hindi_summary
Summarized(r) == pc[r] \in {"synthesize", "read", "offer", "done", "crashed"}
\* the elements of a kind on the screen of a run
Shown(r, kind) == {i \in 1..Len(screen[r]) : screen[r][i].kind = kind}

\* C1: in every Report returned by generate_report the counts of the
\* Sentiment Distribution add up to the number of entries of Articles, which
\* is the number of articles fetch_news returned.
C1_DistributionSumsToArticleCount ==
    \A r \in Runs :
        (Returned(r) /\ ~report[r].isNone) =>
            /\ SumValues(report[r].Distribution) = Len(report[r].Articles)
            /\ Len(report[r].Articles) = Len(articles[r])

C1_Witness ==
    \E r \in Runs :
        /\ Returned(r) /\ ~report[r].isNone
        /\ Len(response[r].items) > max_articles
        /\ Len(report[r].Articles) = max_articles
        /\ DOMAIN report[r].Distribution = Sentiments
        /\ report[r].Distribution["Positive"] = 2

\* C2: when the fetch yields no article, generate_report returns None and
\* not a Report with zero counts, generate_hindi_summary of what it returned
\* is the fixed fallback message, and the run makes no gTTS request.
C2_EmptyFetchGivesNoReportNoSpeech ==
    \A r \in Runs :
        (pc[r] \notin {"idle", "fetch"} /\ articles[r] = <<>>) =>
            /\ report[r] = None
            /\ pc[r] \in {"generate", "returned", "done"}
            /\ tts[r] = NoTts
            /\ Shown(r, "audio") = {}
            /\ Returned(r) => generate_hindi_summary(report[r]) = NoReportMessage

C2_Witness ==
    \E r \in Runs :
        /\ pc[r] = "done"
        /\ response[r].kind = "ok"
        /\ response[r].items = <<>>
        /\ report[r] = None
        /\ tts[r] = NoTts

\* what a finished run without a report left on the screen: the messages
\* of its error boxes, in order (the company name is left out)
Messages(r) == [i \in 1..Len(screen[r]) |-> screen[r][i].msg]

\* C3: a run whose fetch failed and a run whose fetch succeeded with zero
\* articles end with different things shown, and neither has a report.
C3_FailureAndEmptyAreDistinct ==
    \A r1, r2 \in Runs :
        ( /\ pc[r1] = "done" /\ response[r1].kind \in FailureKinds
          /\ pc[r2] = "done" /\ response[r2].kind = "ok" /\ response[r2].items = <<>> ) =>
            /\ report[r1] = None
            /\ report[r2] = None
            /\ Shown(r1, "error") = 1..Len(screen[r1])
            /\ Shown(r2, "error") = 1..Len(screen[r2])
            /\ Messages(r1) # Messages(r2)

C3_Witness ==
    \E r1, r2 \in Runs :
        /\ pc[r1] = "done" /\ response[r1].kind = "bad status"
        /\ pc[r2] = "done" /\ response[r2].kind = "ok" /\ response[r2].items = <<>>
        /\ company[r1] = company[r2]
        /\ Messages(r1) = <<"Error fetching news", "Could not fetch news for">>
        /\ Messages(r2) = <<"Could not fetch news for">>

\* C4: the audio bytes a run offers for playback and download are the bytes
\* synthesized from that run's own summary, whatever other runs do.
C4_RunOffersItsOwnAudio ==
    \A r \in Runs :
        \A i \in Shown(r, "audio") \cup Shown(r, "download") :
            screen[r][i].data = <<Mp3(hindi_summary[r], "hi")>>

\* C5: when a report was produced and synthesis fails, the metrics, the
\* detail of every article and the summary text are on the screen, and no
\* audio is offered.
C5_NarrationFailureKeepsTextualReport ==
    \A r \in Runs :
        pc[r] = "crashed" =>
            /\ ~report[r].isNone
            /\ \A s \in Sentiments :
                  \E i \in Shown(r, "metric") :
                      /\ screen[r][i].label = s
                      /\ screen[r][i].value = Cardinality({j \in 1..Len(report[r].Articles) :
                                                              report[r].Articles[j].Sentiment = s})
            /\ \A j \in 1..Len(report[r].Articles) :
                  \E i \in Shown(r, "expander") :
                      /\ screen[r][i].title = report[r].Articles[j].Title
                      /\ screen[r][i].sentiment = report[r].Articles[j].Sentiment
                      /\ screen[r][i].summary = report[r].Articles[j].Summary
                      /\ screen[r][i].topics = report[r].Articles[j].Topics
            /\ \E i \in Shown(r, "text") : screen[r][i].body = generate_hindi_summary(report[r])
            /\ Shown(r, "audio") = {}
            /\ Shown(r, "download") = {}

\* C5, the display is not undone: whatever is on a screen stays there
C5_ScreenOnlyGrows ==
    [][\A r \in Runs :
          /\ Len(screen'[r]) >= Len(screen[r])
          /\ SubSeq(screen'[r], 1, Len(screen[r])) = screen[r]]_vars

C5_Witness ==
    \E r \in Runs :
        /\ pc[r] = "crashed"
        /\ Len(report[r].Articles) = 3
        /\ Shown(r, "text") # {}
        /\ Shown(r, "exception") # {}

\* C6: analyze_sentiment returns Positive exactly when the polarity is above
\* 0.1, Negative exactly when it is below -0.1 and Neutral otherwise (so at
\* 0.1 and at -0.1), and Neutral when the scorer raised.
C6_SentimentThresholds ==
    fn_pc = "output" =>
        /\ sentiment \in Sentiments
        /\ score.raised => sentiment = "Neutral"
        /\ ~score.raised =>
              /\ sentiment = "Positive" <=> 10 * score.polarity > Scale
              /\ sentiment = "Negative" <=> 10 * score.polarity < -Scale
              /\ sentiment = "Neutral" <=> (10 * score.polarity <= Scale /\ 10 * score.polarity >= -Scale)

C6_Witness ==
    /\ fn_pc = "output"
    /\ ~score.raised
    /\ 10 * score.polarity = Scale
    /\ sentiment = "Neutral"

\* the topics of the table of which some keyword occurs in the lower-cased text
Matched(t) ==
    {topic \in DOMAIN TOPIC_KEYWORDS :
        \E k \in 1..Len(TOPIC_KEYWORDS[topic]) : Contains(TOPIC_KEYWORDS[topic][k], lower(t))}
\* the position of a topic in the table
TablePos(topic) == CHOOSE i \in 1..Len(TOPIC_ORDER) : TOPIC_ORDER[i] = topic

\* C7: extract_topics returns a non-empty list: the matched topics, each
\* once and in table order, or exactly ["General"] when (and only when) no
\* topic matches; "General" never accompanies a matched topic.
C7_TopicsAreTheMatchedOnesInTableOrder ==
    fn_pc = "output" =>
        /\ Len(topics) >= 1
        /\ (Matched(text) = {}) <=> (topics = <<"General">>)
        /\ Matched(text) # {} =>
              /\ {topics[i] : i \in 1..Len(topics)} = Matched(text)
              /\ \A i, j \in 1..Len(topics) : i < j => TablePos(topics[i]) < TablePos(topics[j])

C7_Witness ==
    /\ fn_pc = "output"
    /\ text = <<"L", "a", "w", "N", "e", "v", "e", "r">>
    /\ topics = <<"Electric Vehicles", "Regulations">>

\* C8: when the request fails (network error, timeout, bad status, parse
\* failure) fetch_news returns no article at all, shows one error, raises
\* nothing, and the run ends without a report.
C8_FetchFailsAsAWhole ==
    \A r \in Runs :
        response[r].kind \in FailureKinds =>
            /\ articles[r] = <<>>
            /\ Cardinality({i \in Shown(r, "error") : screen[r][i].msg = "Error fetching news"}) = 1
            /\ pc[r] \in {"generate", "returned", "done"}
            /\ report[r] = None
            /\ Shown(r, "success") = {}

C8_Witness ==
    \E r \in Runs :
        /\ response[r].kind = "parse failure"
        /\ Len(response[r].items) >= 2
        /\ pc[r] = "done"
        /\ articles[r] = <<>>

\* C9: the total generate_hindi_summary renders, the sum of the three counts
\* read with default 0, is the number of articles of the Report.
C9_SummaryTotalAgrees ==
    \A r \in Runs :
        (Summarized(r) /\ ~report[r].isNone) =>
            /\ hindi_summary[r].kind = "analysis"
            /\ hindi_summary[r].total = Len(report[r].Articles)

C9_Witness ==
    \E r \in Runs :
        /\ Summarized(r)
        /\ hindi_summary[r].kind = "analysis"
        /\ hindi_summary[r].total = max_articles
        /\ hindi_summary[r].neutral = 3
        /\ "Positive" \notin DOMAIN report[r].Distribution

\* C10: the Sentiment Distribution of a Report has only the three classes
\* as keys, each with a count of at least 1: a class without articles is
\* absent, Positive too.
C10_DistributionHasNoZeroCounts ==
    \A r \in Runs :
        (Returned(r) /\ ~report[r].isNone) =>
            /\ DOMAIN report[r].Distribution \subseteq Sentiments
            /\ \A k \in DOMAIN report[r].Distribution : report[r].Distribution[k] >= 1

C10_Witness ==
    \E r \in Runs :
        /\ Returned(r) /\ ~report[r].isNone
        /\ "Positive" \notin DOMAIN report[r].Distribution
        /\ "Positive" \in DOMAIN sentiment_counts[r]
        /\ sentiment_counts[r]["Positive"] = 0

====
